---- MODULE Spec2Model ----
(***************************************************************************)
(* Model of cmd/switcher/switch.go: the "switch" root command (store       *)
(* registration and the hand-over to the Switcher), getVaultStore (the     *)
(* resolution of the Vault address and token) and the "hooks" sub-command. *)
(***************************************************************************)
EXTENDS Integers, Sequences, FiniteSets, TLC

(* ------------------------------ bounds --------------------------------- *)
MaxPaths == 2
MaxTime == 3
MaxInterval == 2
MaxRunTime == 1

(* --------------------------- program constants ------------------------- *)
StoreKindFilesystem == "filesystem"
StoreKindVault == "vault"
\* a store kind the switch statement does not know
StoreKindOther == "s3"
StoreKinds == {StoreKindFilesystem, StoreKindVault, StoreKindOther}
KnownKinds == {StoreKindFilesystem, StoreKindVault}

\* the content of a file that cannot be read (ioutil.ReadFile yields nil)
NoFile == "<nil>"

PathNames == <<"/p1", "/p2", "/p3", "/p4", "/p5", "/p6">>
CliPath == "/cli"

VARIABLES
  \* inputs of one invocation of the root command
  configFile,               \* what config.LoadConfigFromFile yields
  kubeconfigPath,           \* flag --kubeconfig-path
  storageBackend,           \* flag --store
  vaultAPIAddressFromFlag,  \* flag --vault-api-address
  environ,                  \* VAULT_ADDR, VAULT_TOKEN, HOME
  tokenFile,                \* content of $HOME/.vault-token, or NoFile
  newClientFails,           \* vaultapi.NewClient reports an error
  \* the state of RunE
  pc, switchConfig, idx, useVaultStore, useFilesystemStore, stores,
  result, switcherStores,
  \* the hooks sub-command
  now, hookRecords, runImmediately, hookName, flagGiven, lastInv

switchInputs == <<configFile, kubeconfigPath, storageBackend,
                  vaultAPIAddressFromFlag, environ, tokenFile, newClientFails>>
switchVars == <<pc, switchConfig, idx, useVaultStore, useFilesystemStore,
                stores, result, switcherStores>>
hookVars == <<now, hookRecords, runImmediately, hookName, flagGiven, lastInv>>
vars == <<switchInputs, switchVars, hookVars>>

(* ------------------------------ helpers -------------------------------- *)
RECURSIVE SeqsUpTo(_, _)
SeqsUpTo(S, n) ==
  IF n = 0 THEN {<<>>}
  ELSE LET shorter == SeqsUpTo(S, n - 1)
       IN shorter \cup {Append(s, x) : s \in {t \in shorter : Len(t) = n - 1}, x \in S}

\* the entries of a configuration file: kinds are free, paths are distinct
ConfigPathLists ==
  { [i \in 1..Len(ks) |-> [Path |-> PathNames[i], Store |-> ks[i]]] :
       ks \in SeqsUpTo(StoreKinds, MaxPaths) }

EmptyConfig == [KubeconfigPaths |-> <<>>, VaultAPIAddress |-> ""]

\* (cfg, err) of config.LoadConfigFromFile
LoaderResults ==
  { [err |-> TRUE, isNil |-> TRUE, cfg |-> EmptyConfig],
    [err |-> FALSE, isNil |-> TRUE, cfg |-> EmptyConfig] }
  \cup { [err |-> FALSE, isNil |-> FALSE,
          cfg |-> [KubeconfigPaths |-> ps, VaultAPIAddress |-> a]] :
            ps \in ConfigPathLists, a \in {"", "fileAddr"} }

(* -------------------- the root command: operators --------------------- *)

\* RunE, lines 43-45: an error of the loader ends the operation
LoadFailed_ignored(cf) == FALSE
LoadFailed(cf) == cf.err

\* RunE, lines 47-49: no configuration is replaced by an empty one
ConfigOrEmpty(cf) == IF cf.isNil THEN EmptyConfig ELSE cf.cfg

\* RunE, lines 51-56: the command-line entry is appended to the list
AppendCommandLinePath(cfg) ==
  IF Len(kubeconfigPath) > 0
    THEN [cfg EXCEPT !.KubeconfigPaths =
            Append(@, [Path |-> kubeconfigPath, Store |-> storageBackend])]
    ELSE cfg

\* RunE, lines 67-90: the branch of the switch statement taken for a kind
StoreCase_lenient(kind) ==
  IF kind = StoreKindVault THEN "vault" ELSE "filesystem"
StoreCase(kind) ==
  CASE kind = StoreKindFilesystem -> "filesystem"
    [] kind = StoreKindVault -> "vault"
    [] OTHER -> "default"

\* RunE, lines 69 and 79: a kind whose store was constructed is skipped
AlreadyUsed_never(kind) == FALSE
AlreadyUsed(kind) ==
  IF kind = StoreKindFilesystem THEN useFilesystemStore ELSE useVaultStore

\* RunE, lines 73-77: the filesystem store is given the whole list
NewFilesystemStore_prefix(cfg) ==
  [kind |-> StoreKindFilesystem,
   KubeconfigPaths |-> SubSeq(cfg.KubeconfigPaths, 1, idx),
   Address |-> "", Token |-> ""]
NewFilesystemStore(cfg) ==
  [kind |-> StoreKindFilesystem, KubeconfigPaths |-> cfg.KubeconfigPaths,
   Address |-> "", Token |-> ""]

\* getVaultStore, lines 101-110: file, overridden by the flag, overridden
\* by VAULT_ADDR
ResolveVaultAPI_flagLast(vaultAPIAddressFromSwitchConfig) ==
  LET a1 == vaultAPIAddressFromSwitchConfig
      a2 == IF Len(environ.VAULT_ADDR) > 0 THEN environ.VAULT_ADDR ELSE a1
  IN IF Len(vaultAPIAddressFromFlag) > 0 THEN vaultAPIAddressFromFlag ELSE a2
ResolveVaultAPI(vaultAPIAddressFromSwitchConfig) ==
  LET a1 == vaultAPIAddressFromSwitchConfig
      a2 == IF Len(vaultAPIAddressFromFlag) > 0 THEN vaultAPIAddressFromFlag ELSE a1
  IN IF Len(environ.VAULT_ADDR) > 0 THEN environ.VAULT_ADDR ELSE a2

\* os.UserHomeDir, lines 116-119: fails when $HOME is not defined
UserHomeDirFails == Len(environ.HOME) = 0

\* getVaultStore, lines 121-132: the token file, overridden by VAULT_TOKEN
ResolveVaultToken_fileLast ==
  IF tokenFile # NoFile /\ Len(tokenFile) > 0 THEN tokenFile
  ELSE environ.VAULT_TOKEN
ResolveVaultToken ==
  LET t1 == IF tokenFile # NoFile THEN tokenFile ELSE ""
  IN IF Len(environ.VAULT_TOKEN) > 0 THEN environ.VAULT_TOKEN ELSE t1

NoStore == [kind |-> "", KubeconfigPaths |-> <<>>, Address |-> "", Token |-> ""]

\* getVaultStore, lines 100-153: (store, err)
getVaultStore(vaultAPIAddressFromSwitchConfig, paths) ==
  LET vaultAPI == ResolveVaultAPI(vaultAPIAddressFromSwitchConfig)
      vaultToken == ResolveVaultToken
  IN IF Len(vaultAPI) = 0 THEN [err |-> TRUE, store |-> NoStore]
     ELSE IF UserHomeDirFails THEN [err |-> TRUE, store |-> NoStore]
     ELSE IF Len(vaultToken) = 0 THEN [err |-> TRUE, store |-> NoStore]
     ELSE IF newClientFails THEN [err |-> TRUE, store |-> NoStore]
     ELSE [err |-> FALSE,
           store |-> [kind |-> StoreKindVault, KubeconfigPaths |-> paths,
                      Address |-> vaultAPI, Token |-> vaultToken]]

\* RunE, line 92
AppendStore_front(ss, s) == <<s>> \o ss
AppendStore(ss, s) == Append(ss, s)

(* --------------------- the root command: actions ---------------------- *)

\* RunE, lines 42-62: load the configuration, add the command-line entry
RunEStart ==
  /\ pc = "start"
  /\ IF LoadFailed(configFile)
       THEN /\ pc' = "done"
            /\ result' = "error"
            /\ UNCHANGED switchConfig
       ELSE /\ pc' = "loop"
            /\ switchConfig' = AppendCommandLinePath(ConfigOrEmpty(configFile))
            /\ UNCHANGED result
  /\ idx' = 1
  /\ useVaultStore' = FALSE
  /\ useFilesystemStore' = FALSE
  /\ stores' = <<>>
  /\ UNCHANGED <<switcherStores, switchInputs, hookVars>>

InLoop == pc = "loop" /\ idx <= Len(switchConfig.KubeconfigPaths)
configuredKubeconfigPath == switchConfig.KubeconfigPaths[idx]

\* one iteration of the loop, lines 68-77 and 92
RegisterFilesystem ==
  /\ InLoop
  /\ StoreCase(configuredKubeconfigPath.Store) = "filesystem"
  /\ IF AlreadyUsed(StoreKindFilesystem)
       THEN UNCHANGED <<useFilesystemStore, stores>>
       ELSE /\ useFilesystemStore' = TRUE
            /\ stores' = AppendStore(stores, NewFilesystemStore(switchConfig))
  /\ idx' = idx + 1
  /\ UNCHANGED <<pc, switchConfig, useVaultStore, result, switcherStores,
                 switchInputs, hookVars>>

\* one iteration of the loop, lines 78-87 and 92
RegisterVault ==
  /\ InLoop
  /\ StoreCase(configuredKubeconfigPath.Store) = "vault"
  /\ IF AlreadyUsed(StoreKindVault)
       THEN /\ idx' = idx + 1
            /\ UNCHANGED <<useVaultStore, stores, pc, result>>
       ELSE LET r == getVaultStore(switchConfig.VaultAPIAddress,
                                   switchConfig.KubeconfigPaths)
            IN /\ useVaultStore' = TRUE
               /\ IF r.err
                    THEN /\ pc' = "done"
                         /\ result' = "error"
                         /\ UNCHANGED <<stores, idx>>
                    ELSE /\ stores' = AppendStore(stores, r.store)
                         /\ idx' = idx + 1
                         /\ UNCHANGED <<pc, result>>
  /\ UNCHANGED <<switchConfig, useFilesystemStore, switcherStores,
                 switchInputs, hookVars>>

\* one iteration of the loop, lines 88-89: unknown store
RegisterUnknown ==
  /\ InLoop
  /\ StoreCase(configuredKubeconfigPath.Store) = "default"
  /\ pc' = "done"
  /\ result' = "error"
  /\ UNCHANGED <<switchConfig, idx, useVaultStore, useFilesystemStore, stores,
                 switcherStores, switchInputs, hookVars>>

\* RunE, line 95: the stores are handed to pkg.Switcher
CallSwitcher ==
  /\ pc = "loop"
  /\ idx > Len(switchConfig.KubeconfigPaths)
  /\ pc' = "done"
  /\ result' = "switcher"
  /\ switcherStores' = stores
  /\ UNCHANGED <<switchConfig, idx, useVaultStore, useFilesystemStore, stores,
                 switchInputs, hookVars>>

(* ------------------------ the hooks sub-command ------------------------ *)
HookNames == {"h1", "h2"}
\* lastRunAt of a hook that never ran
Absent == -1

\* init, lines 192-196: the default of --run-immediately
RunImmediatelyDefault_false == FALSE
RunImmediatelyDefault == TRUE

\* cobra flag parsing: the flag's value when given, its default otherwise
FlagValue(given, value) == IF given THEN value ELSE RunImmediatelyDefault

\* Idle -> Due: now - lastRunAt >= intervalSeconds, or lastRunAt absent
Due(rec, t) ==
  rec.lastRunAt = Absent \/ t - rec.lastRunAt >= rec.intervalSeconds

NoInvocation ==
  [invoked |-> FALSE, ran |-> FALSE, name |-> "", start |-> 0, finish |-> 0,
   outcome |-> "none", before |-> [h \in HookNames |->
                         [intervalSeconds |-> 0, lastRunAt |-> Absent]]]

\* hooks.Hooks: select the named hook when forced or due, run it, and
\* persist lastRunAt = start of the run whatever the outcome
Hooks(name, force) ==
  IF name \in HookNames /\ (force \/ Due(hookRecords[name], now))
    THEN \E d \in 0..MaxRunTime, outcome \in {"Succeeded", "Failed"} :
           /\ now + d <= MaxTime
           /\ hookRecords' = [hookRecords EXCEPT ![name].lastRunAt = now]
           /\ now' = now + d
           /\ lastInv' = [invoked |-> TRUE, ran |-> TRUE, name |-> name,
                          start |-> now, finish |-> now + d,
                          outcome |-> outcome, before |-> hookRecords]
    ELSE /\ lastInv' = [invoked |-> TRUE, ran |-> FALSE, name |-> name,
                        start |-> now, finish |-> now,
                        outcome |-> "none", before |-> hookRecords]
         /\ UNCHANGED <<now, hookRecords>>

\* hookCmd.RunE, lines 168-171, with the flags parsed into the globals
hookCmd_alwaysForce(name, given, value) ==
  /\ hookName' = name
  /\ flagGiven' = given
  /\ runImmediately' = FlagValue(given, value)
  /\ Hooks(name, TRUE)
  /\ UNCHANGED <<switchInputs, switchVars>>
hookCmd(name, given, value) ==
  /\ hookName' = name
  /\ flagGiven' = given
  /\ runImmediately' = FlagValue(given, value)
  /\ Hooks(name, FlagValue(given, value))
  /\ UNCHANGED <<switchInputs, switchVars>>

HookCmd ==
  \E name \in HookNames \cup {""}, given \in BOOLEAN, value \in BOOLEAN :
    hookCmd(name, given, value)

\* the wall clock
Tick ==
  /\ now < MaxTime
  /\ now' = now + 1
  /\ UNCHANGED <<hookRecords, runImmediately, hookName, flagGiven, lastInv,
                 switchInputs, switchVars>>

(* --------------------------- specifications ---------------------------- *)
SwitchIdle ==
  /\ pc = "start"
  /\ switchConfig = EmptyConfig
  /\ idx = 1
  /\ useVaultStore = FALSE
  /\ useFilesystemStore = FALSE
  /\ stores = <<>>
  /\ result = "none"
  /\ switcherStores = <<>>

HooksIdle ==
  /\ now = 0
  /\ runImmediately = RunImmediatelyDefault
  /\ hookName = ""
  /\ flagGiven = FALSE
  /\ lastInv = NoInvocation

\* one invocation of the root command, for every input
Init ==
  /\ configFile \in LoaderResults
  /\ kubeconfigPath \in {"", CliPath}
  /\ storageBackend \in StoreKinds
  /\ vaultAPIAddressFromFlag \in {"", "flagAddr"}
  /\ environ \in [VAULT_ADDR : {"", "envAddr"}, VAULT_TOKEN : {"", "envTok"},
                  HOME : {"", "/home/u"}]
  /\ tokenFile \in {NoFile, "", "fileTok"}
  /\ newClientFails \in BOOLEAN
  /\ SwitchIdle
  /\ HooksIdle
  /\ hookRecords = NoInvocation.before

Next == RunEStart \/ RegisterFilesystem \/ RegisterVault \/ RegisterUnknown
          \/ CallSwitcher

Spec == Init /\ [][Next]_vars

\* invocations of the hooks sub-command over a persisted state
InitHooks ==
  /\ configFile = [err |-> FALSE, isNil |-> TRUE, cfg |-> EmptyConfig]
  /\ kubeconfigPath = CliPath
  /\ storageBackend = StoreKindFilesystem
  /\ vaultAPIAddressFromFlag = ""
  /\ environ = [VAULT_ADDR |-> "", VAULT_TOKEN |-> "", HOME |-> "/home/u"]
  /\ tokenFile = NoFile
  /\ newClientFails = FALSE
  /\ SwitchIdle
  /\ HooksIdle
  /\ hookRecords \in [HookNames ->
                       [intervalSeconds : 0..MaxInterval, lastRunAt : {Absent}]]

NextHooks == HookCmd \/ Tick

SpecHooks == InitHooks /\ [][NextHooks]_vars

TypeOK ==
  /\ pc \in {"start", "loop", "done"}
  /\ result \in {"none", "error", "switcher"}
  /\ now \in 0..MaxTime

(* ------------------- vocabulary of the properties ---------------------- *)
\* the configured PathSpecs of the invocation: the entries of the
\* configuration file, then the command-line entry
ConfiguredPathSpecs ==
  (IF configFile.err \/ configFile.isNil THEN <<>>
   ELSE configFile.cfg.KubeconfigPaths)
  \o (IF kubeconfigPath = "" THEN <<>>
      ELSE <<[Path |-> kubeconfigPath, Store |-> storageBackend]>>)

HasKind(K) == \E i \in DOMAIN ConfiguredPathSpecs : ConfiguredPathSpecs[i].Store = K
AllRecognized == \A i \in DOMAIN ConfiguredPathSpecs :
                    ConfiguredPathSpecs[i].Store \in KnownKinds
FirstIndex(K) ==
  IF HasKind(K)
    THEN CHOOSE i \in DOMAIN ConfiguredPathSpecs :
           /\ ConfiguredPathSpecs[i].Store = K
           /\ \A j \in 1..(i - 1) : ConfiguredPathSpecs[j].Store # K
    ELSE 0
StoresOfKind(K) == {i \in DOMAIN stores : stores[i].kind = K}
Count(K) == Cardinality(StoresOfKind(K))
Holds(st, ps) == \E j \in DOMAIN st.KubeconfigPaths : st.KubeconfigPaths[j] = ps
Finished == pc = "done"
Discovery == result = "switcher"

(* ------------------------------- C1 ------------------------------------ *)
\* C1 as stated: for every list of recognized kinds the operation ends with
\* exactly one Store of each kind that occurs in the list and none of a kind
\* that does not, and never holds two Stores of one kind.
C1_AsStated ==
  /\ \A K \in KnownKinds : Count(K) <= 1
  /\ (Finished /\ ~configFile.err /\ AllRecognized) =>
        \A K \in KnownKinds : Count(K) = (IF HasKind(K) THEN 1 ELSE 0)

\* C1 (amended): at no point do two Stores of one kind exist, no Store exists
\* of a kind that is not in the list, and when the registration loop finishes
\* without error there is exactly one Store of every kind in the list.
C1_OneStorePerKind ==
  /\ \A K \in KnownKinds : Count(K) <= 1
  /\ \A K \in KnownKinds : ~HasKind(K) => Count(K) = 0
  /\ \A i \in DOMAIN stores : stores[i].kind \in KnownKinds
  /\ Discovery => \A K \in KnownKinds : Count(K) = (IF HasKind(K) THEN 1 ELSE 0)

C1_Witness ==
  /\ Discovery
  /\ Len(ConfiguredPathSpecs) = 3
  /\ Count(StoreKindFilesystem) = 1
  /\ Count(StoreKindVault) = 1

(* ------------------------------- C2 ------------------------------------ *)
\* C2: every Store holds PathSpecs of its own kind only.
C2_OwnKindOnly ==
  \A i \in DOMAIN stores :
    \A j \in DOMAIN stores[i].KubeconfigPaths :
      stores[i].KubeconfigPaths[j].Store = stores[i].kind

(* ------------------------------- C3 ------------------------------------ *)
\* C3: when the registration loop finishes without error, every configured
\* PathSpec of kind K is held by the one Store of kind K.
C3_NoPathSpecLost ==
  Discovery =>
    \A i \in DOMAIN ConfiguredPathSpecs :
      LET ps == ConfiguredPathSpecs[i]
      IN /\ Count(ps.Store) = 1
         /\ \A k \in StoresOfKind(ps.Store) : Holds(stores[k], ps)

C3_Witness ==
  /\ Discovery
  /\ Len(ConfiguredPathSpecs) = 3
  /\ ConfiguredPathSpecs[1].Store = StoreKindVault
  /\ ConfiguredPathSpecs[2].Store = StoreKindFilesystem
  /\ ConfiguredPathSpecs[3] = [Path |-> CliPath, Store |-> StoreKindVault]
  /\ \A k \in StoresOfKind(StoreKindVault) : Holds(stores[k], ConfiguredPathSpecs[3])

(* ------------------------------- C4 ------------------------------------ *)
\* C4: in the list handed to the Switcher, Store A precedes Store B exactly
\* when the first PathSpec of A's kind occurs before the first of B's kind.
C4_FirstRegistrationOrder ==
  Discovery =>
    \A a, b \in DOMAIN switcherStores :
      (a < b) <=> (FirstIndex(switcherStores[a].kind)
                     < FirstIndex(switcherStores[b].kind))

C4_Witness ==
  /\ Discovery
  /\ Len(switcherStores) = 2
  /\ switcherStores[1].kind = StoreKindVault
  /\ switcherStores[2].kind = StoreKindFilesystem
  /\ FirstIndex(StoreKindFilesystem) = 3

(* ------------------------------- C5 ------------------------------------ *)
\* C5: with a PathSpec of an unrecognized kind anywhere in the list the
\* operation ends with an error and the Switcher is never called.
C5_UnknownKindFails ==
  ~AllRecognized => /\ ~Discovery
                    /\ switcherStores = <<>>
                    /\ Finished => result = "error"

C5_Witness ==
  /\ Finished
  /\ result = "error"
  /\ Len(ConfiguredPathSpecs) = 3
  /\ ConfiguredPathSpecs[3].Store = StoreKindOther
  /\ Len(stores) = 2

(* ------------------------------- C6 ------------------------------------ *)
AddressAbsent ==
  /\ vaultAPIAddressFromFlag = ""
  /\ environ.VAULT_ADDR = ""
  /\ (configFile.err \/ configFile.isNil \/ configFile.cfg.VaultAPIAddress = "")
FileAddress ==
  IF configFile.err \/ configFile.isNil THEN "" ELSE configFile.cfg.VaultAPIAddress

\* C6 as stated: the address of the Vault store is the flag's value when
\* set, otherwise VAULT_ADDR, otherwise the file's; with none of the three
\* the construction fails.
C6_AsStated ==
  /\ \A k \in StoresOfKind(StoreKindVault) :
       stores[k].Address =
         (IF vaultAPIAddressFromFlag # "" THEN vaultAPIAddressFromFlag
          ELSE IF environ.VAULT_ADDR # "" THEN environ.VAULT_ADDR
          ELSE FileAddress)
  /\ AddressAbsent => Count(StoreKindVault) = 0

\* C6 (amended): the address of the Vault store is VAULT_ADDR when set,
\* otherwise the flag's value, otherwise the file's; with none of the three
\* no Vault store is constructed and an operation that configures a vault
\* PathSpec ends with an error.
C6_AddressPrecedence ==
  /\ \A k \in StoresOfKind(StoreKindVault) :
       /\ stores[k].Address # ""
       /\ stores[k].Address =
            (IF environ.VAULT_ADDR # "" THEN environ.VAULT_ADDR
             ELSE IF vaultAPIAddressFromFlag # "" THEN vaultAPIAddressFromFlag
             ELSE FileAddress)
  /\ AddressAbsent => /\ Count(StoreKindVault) = 0
                      /\ (Finished /\ HasKind(StoreKindVault)) => result = "error"

C6_Witness ==
  /\ vaultAPIAddressFromFlag = "flagAddr"
  /\ environ.VAULT_ADDR = "envAddr"
  /\ FileAddress = "fileAddr"
  /\ \E k \in StoresOfKind(StoreKindVault) : stores[k].Address = "envAddr"

(* ------------------------------- C7 ------------------------------------ *)
FileToken == IF tokenFile = NoFile THEN "" ELSE tokenFile
TokenAbsent == environ.VAULT_TOKEN = "" /\ FileToken = ""

\* C7: the token of the Vault store is VAULT_TOKEN when non-empty, otherwise
\* the token file's content; with a vault PathSpec and no token the operation
\* fails and the Switcher is never called; without a vault PathSpec a missing
\* token or address causes no failure.
C7_TokenResolution ==
  /\ \A k \in StoresOfKind(StoreKindVault) :
       /\ stores[k].Token # ""
       /\ stores[k].Token =
            (IF environ.VAULT_TOKEN # "" THEN environ.VAULT_TOKEN ELSE FileToken)
  /\ (HasKind(StoreKindVault) /\ TokenAbsent) =>
       /\ ~Discovery
       /\ Count(StoreKindVault) = 0
       /\ Finished => result = "error"
  /\ (~HasKind(StoreKindVault) /\ AllRecognized /\ ~configFile.err /\ Finished)
       => Discovery

C7_Witness ==
  /\ Finished
  /\ result = "error"
  /\ TokenAbsent
  /\ ~AddressAbsent
  /\ environ.HOME # ""
  /\ AllRecognized
  /\ Count(StoreKindFilesystem) = 1
  /\ HasKind(StoreKindVault)

(* ------------------------------- C8 ------------------------------------ *)
\* C8 as stated: when the loader reports an error or yields no configuration
\* the operation returns an error, constructs no Store and never starts
\* discovery.
C8_AsStated ==
  (configFile.err \/ configFile.isNil) =>
     /\ stores = <<>>
     /\ ~Discovery
     /\ Finished => result = "error"

\* C8 (amended): when the loader reports an error the operation returns an
\* error, constructs no Store and never starts discovery; when the loader
\* yields no configuration and no error, the operation goes on with an empty
\* configuration, that is with the command-line entry alone.
C8_LoaderErrorIsFatal ==
  /\ configFile.err =>
       /\ stores = <<>>
       /\ ~Discovery
       /\ pc # "loop"
       /\ Finished => result = "error"
  /\ (~configFile.err /\ configFile.isNil /\ pc # "start") =>
       /\ switchConfig.VaultAPIAddress = ""
       /\ switchConfig.KubeconfigPaths =
            (IF kubeconfigPath = "" THEN <<>>
             ELSE <<[Path |-> kubeconfigPath, Store |-> storageBackend]>>)

C8_Witness ==
  /\ configFile.err
  /\ Finished
  /\ result = "error"
  /\ stores = <<>>
  /\ kubeconfigPath # ""

(* ------------------------------- C9 ------------------------------------ *)
ranRecord == hookRecords[lastInv.name]
WasDue ==
  LET b == lastInv.before[lastInv.name]
  IN b.lastRunAt = Absent \/ lastInv.start - b.lastRunAt >= b.intervalSeconds

OthersUnchanged ==
  \A h \in HookNames : h # lastInv.name => hookRecords[h] = lastInv.before[h]

\* C10 as stated: with the force input set the named hook is run whatever
\* the time since its lastRunAt, the records of the other hooks stay as they
\* were, with the input false a hook that is not due is not run, and an
\* invocation that does not set the input follows the schedule.
C10_AsStated ==
  lastInv.invoked =>
    /\ (runImmediately /\ flagGiven /\ lastInv.name \in HookNames) => lastInv.ran
    /\ OthersUnchanged
    /\ (~runImmediately /\ lastInv.name \in HookNames /\ ~WasDue) => ~lastInv.ran
    /\ (~flagGiven /\ lastInv.name \in HookNames /\ ~WasDue) => ~lastInv.ran

\* C10 (amended): with the force input true the named hook is run whatever
\* the time since its lastRunAt, the records of the other hooks stay as they
\* were, and with the input false a hook that is not due is not run; the
\* input defaults to true, so an invocation that does not set it runs the
\* named hook regardless of the schedule.
C10_ForceIsAnInput ==
  lastInv.invoked =>
    /\ lastInv.name = hookName
    /\ (runImmediately /\ lastInv.name \in HookNames) => lastInv.ran
    /\ OthersUnchanged
    /\ (~runImmediately /\ lastInv.name \in HookNames /\ ~WasDue) => ~lastInv.ran
    /\ ~flagGiven => runImmediately
    /\ (~flagGiven /\ lastInv.name \in HookNames) => lastInv.ran

C10_Witness ==
  /\ lastInv.invoked
  /\ ~flagGiven
  /\ lastInv.name \in HookNames
  /\ ~WasDue
  /\ lastInv.ran
  /\ \E h \in HookNames : h # lastInv.name /\ hookRecords[h].lastRunAt # Absent

====
